---- MODULE Spec2Model ----
(***************************************************************************)
(* A model of ecom-synth's data generator: the DataGenerator pipeline of   *)
(* src/generators/index.js, the sampling helpers of src/utils/helpers.js,  *)
(* the presets of src/config.js and the scale validation of the           *)
(* command-line entry point.                                               *)
(*                                                                         *)
(* Conventions.                                                            *)
(*  - Math.random() is a nondeterministic draw.  A draw is enumerated over *)
(*    a finite grid of the values the call can return; a stage outside     *)
(*    plan.focus draws one fixed point of its grid, and with plan.last a   *)
(*    stage enumerates the draws of the last element it iterates over.     *)
(*  - Fractions are integers in ten-thousandths (Unit); Math.round is      *)
(*    Round.                                                               *)
(*  - Dates are whole days relative to the generation time (0 = now, the   *)
(*    past negative); journey timestamps are seconds relative to the       *)
(*    midnight that starts the day of generation.                          *)
(*  - generateId() (uuid v4) is a fresh identifier: a counter.             *)
(***************************************************************************)
EXTENDS Integers, Sequences, FiniteSets, TLC

(***************************************************************************)
(* Bounds of the model.                                                    *)
(***************************************************************************)
\* caps on a preset's cardinalities when the run is not an exact one
MaxWorkspaces == 2
MaxPerWorkspace == 1
MaxVariants == 3
MaxDays == 2

(***************************************************************************)
(* Program constants.                                                      *)
(***************************************************************************)
Null == 0
Unit == 10000
StockMax == 500
MetricDaysMax == 30
ForecastSample == 50

Min(a, b) == IF a <= b THEN a ELSE b
Max(a, b) == IF a >= b THEN a ELSE b

\* Math.round(p / q) for q > 0: the nearest integer, halves towards +infinity
Round(p, q) == (2 * p + q) \div (2 * q)

clampFromBelow(value, lo, hi) == Max(value, lo)

\* clamp(value, min, max)
clamp(value, lo, hi) == Max(lo, Min(hi, value))

\* CONFIG.scales
Scales ==
  [ small    |-> [name |-> "Small", workspaces |-> 2, productsPerWorkspace |-> 10,
                  variantsPerProduct |-> 3, postsPerWorkspace |-> 20,
                  conversationsPerWorkspace |-> 50, ordersPerWorkspace |-> 30,
                  daysOfHistory |-> 30, customersPerWorkspace |-> 200],
    medium   |-> [name |-> "Medium", workspaces |-> 5, productsPerWorkspace |-> 50,
                  variantsPerProduct |-> 4, postsPerWorkspace |-> 100,
                  conversationsPerWorkspace |-> 500, ordersPerWorkspace |-> 200,
                  daysOfHistory |-> 90, customersPerWorkspace |-> 1000],
    large    |-> [name |-> "Large", workspaces |-> 10, productsPerWorkspace |-> 200,
                  variantsPerProduct |-> 5, postsPerWorkspace |-> 500,
                  conversationsPerWorkspace |-> 2000, ordersPerWorkspace |-> 1000,
                  daysOfHistory |-> 180, customersPerWorkspace |-> 5000],
    planning |-> [name |-> "Planning Optimized", workspaces |-> 3, productsPerWorkspace |-> 100,
                  variantsPerProduct |-> 6, postsPerWorkspace |-> 200,
                  conversationsPerWorkspace |-> 1000, ordersPerWorkspace |-> 500,
                  daysOfHistory |-> 365, customersPerWorkspace |-> 2000] ]

validScales == DOMAIN Scales

\* CONFIG.conversationStates
conversationStates ==
  << "initial", "greeting_sent", "awaiting_response", "photo_requested",
     "awaiting_photo", "processing_tryon", "result_sent", "completed", "abandoned" >>

StagesOrdersFirst ==
  << "workspaces", "products", "variants", "inventory", "posts", "metrics",
     "bindings", "orders", "conversations", "journeys", "aggregates",
     "profiles", "forecasts" >>

\* the order of the awaited calls in generate()
Stages ==
  << "workspaces", "products", "variants", "inventory", "posts", "metrics",
     "bindings", "conversations", "orders", "journeys", "aggregates",
     "profiles", "forecasts" >>

StageIndex(s) == CHOOSE k \in 1..Len(Stages) : Stages[k] = s

\* the collections of this.data and the Maps of this.lookups a stage reads
Reads(stage) ==
  CASE stage = "workspaces" -> {}
    [] stage = "products" -> {"workspaces", "accounts", "workspaceProducts"}
    [] stage = "variants" -> {"products", "productVariants"}
    [] stage = "inventory" -> {"product_variants"}
    [] stage = "posts" -> {"workspaces", "accounts", "workspaceProducts", "workspacePosts"}
    [] stage = "metrics" -> {"social_posts"}
    [] stage = "bindings" -> {"social_posts", "products", "post_metrics"}
    [] stage = "conversations" ->
         {"workspaces", "accounts", "garment_bindings", "products", "customerConversations"}
    [] stage = "orders" ->
         {"workspaces", "accounts", "conversations", "garment_bindings", "workspaceProducts"}
    [] stage = "journeys" ->
         {"workspaces", "conversations", "workspacePosts", "workspaceProducts"}
    [] stage = "aggregates" -> {"workspaces", "workspaceProducts"}
    [] stage = "profiles" -> {"workspaces", "customerConversations"}
    [] stage = "forecasts" -> {"products"}

\* the stages that push to a collection, or set or extend the entries of a Map
Writers(name) ==
  CASE name \in {"workspaces", "accounts"} -> {"workspaces"}
    [] name = "products" -> {"products"}
    [] name = "product_variants" -> {"variants"}
    [] name = "inventory_history" -> {"inventory"}
    [] name = "social_posts" -> {"posts"}
    [] name = "post_metrics" -> {"metrics"}
    [] name = "garment_bindings" -> {"bindings"}
    [] name = "conversations" -> {"conversations"}
    [] name = "orders" -> {"orders"}
    [] name = "customer_journeys" -> {"journeys"}
    [] name = "daily_aggregates" -> {"aggregates"}
    [] name = "customer_profiles" -> {"profiles"}
    [] name = "demand_forecasts" -> {"forecasts"}
    [] name = "workspaceProducts" -> {"workspaces", "products"}
    [] name = "workspacePosts" -> {"workspaces", "posts"}
    [] name = "productVariants" -> {"products", "variants"}
    [] name = "postBindings" -> {"bindings"}
    [] name = "customerConversations" -> {"conversations"}

(***************************************************************************)
(* State.                                                                  *)
(***************************************************************************)
VARIABLES
  args,         \* how the program is invoked: [entry, scale]
  plan,         \* what the model enumerates: [focus, last, exact, calls, instances,
                \* faults]
  pc,           \* "start", "validated", "constructed", a stage of Stages, "done",
                \* "threw", "exit0", "exit1"; "call" and "returned" for a helper
                \* applied on its own
  scale,        \* this.scale
  data,         \* this.data: the 14 collections
  lookups,      \* this.lookups
  w, i,         \* positions of the running stage's outer and inner loops
  currentStock, \* generateInventoryHistory's accumulator for the variant at w
  nextId,       \* the identifiers generateId() has handed out
  calls,        \* generate() calls started on this instance
  instances,    \* DataGenerator instances constructed
  prevCounts,   \* the collection sizes returned by the previous instance
  ret           \* the value last returned by a helper applied on its own, or the
                \* dataset main() received from generate() and exported

vars == << args, plan, pc, scale, data, lookups, w, i, currentStock, nextId,
           calls, instances, prevCounts, ret >>

Collections ==
  { "workspaces", "accounts", "products", "product_variants", "inventory_history",
    "social_posts", "post_metrics", "garment_bindings", "conversations", "orders",
    "customer_journeys", "daily_aggregates", "customer_profiles", "demand_forecasts" }

\* the constructor's this.data
EmptyData == [c \in Collections |-> << >>]

\* the constructor's this.lookups; a Map is a sequence of [key, value] entries
\* in insertion order
EmptyLookups ==
  [ workspaceProducts |-> << >>, workspacePosts |-> << >>, productVariants |-> << >>,
    postBindings |-> << >>, customerConversations |-> << >> ]

(***************************************************************************)
(* Map and array helpers.                                                  *)
(***************************************************************************)
MapHas(m, k) == \E n \in 1..Len(m) : m[n].key = k
MapIndex(m, k) == CHOOSE n \in 1..Len(m) : m[n].key = k
MapGet(m, k) == m[MapIndex(m, k)].value
\* Map.prototype.set: an existing key keeps its place, a new one goes last
MapSet(m, k, v) ==
  IF MapHas(m, k) THEN [m EXCEPT ![MapIndex(m, k)].value = v]
  ELSE Append(m, [key |-> k, value |-> v])
MapPushFirst(m, k, v) == [m EXCEPT ![MapIndex(m, k)].value = << v >> \o @]
\* map.get(k).push(v)
MapPush(m, k, v) == [m EXCEPT ![MapIndex(m, k)].value = Append(@, v)]

\* a reference that is null or undefined: the record without an identifier
None == [id |-> Null]

\* Array.prototype.find: the first of the elements that satisfy the test, given
\* as matches in their order, or None
FindFirst(matches) == IF matches = << >> THEN None ELSE matches[1]

Range(s) == {s[n] : n \in 1..Len(s)}

(***************************************************************************)
(* Construction and the command-line entry point.                          *)
(***************************************************************************)
\* the preset with its cardinalities capped by the bounds of the model
Capped(p) ==
  [ name |-> p.name,
    workspaces |-> Min(p.workspaces, MaxWorkspaces),
    productsPerWorkspace |-> Min(p.productsPerWorkspace, MaxPerWorkspace),
    variantsPerProduct |-> Min(p.variantsPerProduct, MaxVariants),
    postsPerWorkspace |-> Min(p.postsPerWorkspace, MaxPerWorkspace),
    conversationsPerWorkspace |-> Min(p.conversationsPerWorkspace, MaxPerWorkspace),
    ordersPerWorkspace |-> Min(p.ordersPerWorkspace, MaxPerWorkspace),
    daysOfHistory |-> Min(p.daysOfHistory, MaxDays),
    customersPerWorkspace |-> Min(p.customersPerWorkspace, MaxPerWorkspace) ]

Bounded(p) == IF plan.exact THEN p ELSE Capped(p)

scaleOfMedium(name) == Scales.medium
\* CONFIG.scales[scale] || CONFIG.scales.medium
scaleOf(name) == IF name \in DOMAIN Scales THEN Scales[name] ELSE Scales.medium

\* the sizes of the collections of a dataset
Counts(d) == [c \in Collections |-> Len(d[c])]

NoCounts == << >>

\* index.js: "Validate scale"; process.exit(1) on a name that is no preset
ValidateScale ==
  /\ pc = "start"
  /\ args.entry = "cli"
  /\ pc' = IF args.scale \in validScales THEN "validated" ELSE "exit1"
  /\ UNCHANGED << args, plan, scale, data, lookups, w, i, currentStock, nextId,
                  calls, instances, prevCounts, ret >>

ConstructShared ==
  /\ IF pc = "start" THEN args.entry = "api"
     ELSE IF pc = "done" THEN instances < plan.instances
     ELSE pc = "validated"
  /\ scale' = Bounded(scaleOf(args.scale))
  /\ pc' = "constructed"
  /\ calls' = 0
  /\ instances' = instances + 1
  /\ prevCounts' = IF pc = "done" THEN Counts(data) ELSE prevCounts
  /\ w' = 0 /\ i' = 0 /\ currentStock' = 0
  /\ UNCHANGED << args, plan, data, lookups, nextId, ret >>

\* new DataGenerator(scale): from main() once the arguments are validated, or
\* by a caller of the class
Construct ==
  /\ IF pc = "start" THEN args.entry = "api"
     ELSE IF pc = "done" THEN instances < plan.instances
     ELSE pc = "validated"
  /\ scale' = Bounded(scaleOf(args.scale))
  /\ data' = EmptyData
  /\ lookups' = EmptyLookups
  /\ pc' = "constructed"
  /\ calls' = 0
  /\ instances' = instances + 1
  /\ prevCounts' = IF pc = "done" THEN Counts(data) ELSE prevCounts
  /\ w' = 0 /\ i' = 0 /\ currentStock' = 0
  /\ UNCHANGED << args, plan, nextId, ret >>

(***************************************************************************)
(* The loops of the stages.                                                *)
(***************************************************************************)
\* days between a date and now, Math.floor((Date.now() - t) / 86400000)
daysSince(day) == 0 - day

\* the array (or Map) a stage iterates over
OuterLen(stage, d, lk) ==
  CASE stage = "workspaces" -> 1
    [] stage \in {"products", "posts", "conversations", "orders", "journeys",
                  "aggregates"} -> Len(d.workspaces)
    [] stage = "variants" -> Len(d.products)
    [] stage = "inventory" -> Len(d.product_variants)
    [] stage \in {"metrics", "bindings"} -> Len(d.social_posts)
    [] stage = "profiles" -> Len(lk.customerConversations)
    [] stage = "forecasts" -> Min(Len(d.products), ForecastSample)

\* a draw of a stage: its grid when the model enumerates the stage's draws (for
\* every element the stage iterates over, or for the last one only), else one
\* point of the grid
Draw(group, grid, point) ==
  IF group \in plan.focus /\ (plan.last => w = OuterLen(pc, data, lookups))
  THEN grid ELSE {point}

\* the iterations of a stage's inner loop for the outer element at ww
InnerLen(stage, d, sc, ww) ==
  CASE stage = "workspaces" -> sc.workspaces
    [] stage = "products" -> sc.productsPerWorkspace
    [] stage = "variants" -> sc.variantsPerProduct
    [] stage = "inventory" -> sc.daysOfHistory
    [] stage = "posts" -> sc.postsPerWorkspace
    [] stage = "metrics" -> Min(daysSince(d.social_posts[ww].posted_at), MetricDaysMax)
    [] stage = "bindings" -> 1
    [] stage = "conversations" -> sc.conversationsPerWorkspace
    [] stage = "orders" -> sc.ordersPerWorkspace
    [] stage = "journeys" -> sc.customersPerWorkspace
    [] stage = "aggregates" -> sc.daysOfHistory
    [] stage = "profiles" -> 1
    [] stage = "forecasts" -> 3

\* the next iteration at or after (stage k, ww, ii); "done" past the last stage
RECURSIVE Seek(_, _, _, _, _, _)
Seek(k, ww, ii, d, lk, sc) ==
  IF k > Len(Stages) THEN [pc |-> "done", w |-> 0, i |-> 0]
  ELSE IF ww > OuterLen(Stages[k], d, lk) THEN Seek(k + 1, 1, 0, d, lk, sc)
  ELSE IF ii >= InnerLen(Stages[k], d, sc, ww) THEN Seek(k, ww + 1, 0, d, lk, sc)
  ELSE [pc |-> Stages[k], w |-> ww, i |-> ii]

\* control moves on after the iteration at (pc, w, i)
Step(d, lk) ==
  LET to == Seek(StageIndex(pc), w, i + 1, d, lk, scale)
  IN  pc' = to.pc /\ w' = to.w /\ i' = to.i

\* generator.generate()
Generate ==
  /\ pc \in {"constructed", "done"}
  /\ calls < plan.calls
  /\ calls' = calls + 1
  /\ LET to == Seek(1, 1, 0, data, lookups, scale)
     IN  pc' = to.pc /\ w' = to.w /\ i' = to.i
  /\ UNCHANGED << args, plan, scale, data, lookups, currentStock, nextId,
                  instances, prevCounts, ret >>

\* an awaited stage throws (its promise rejects) at the iteration at hand:
\* generate() has no try/catch, so its own promise rejects and neither a later
\* stage nor "return this.data" runs
StageThrows ==
  /\ pc \in plan.faults
  /\ pc' = "threw"
  /\ UNCHANGED << args, plan, scale, data, lookups, w, i, currentStock, nextId,
                  calls, instances, prevCounts, ret >>

CatchErrorAndGoOn ==
  /\ pc = "threw"
  /\ args.entry = "cli"
  /\ pc' = "exit0"
  /\ ret' = data
  /\ UNCHANGED << args, plan, scale, data, lookups, w, i, currentStock, nextId,
                  calls, instances, prevCounts >>

\* main(): catch (error) { ...; process.exit(1) }
CatchError ==
  /\ pc = "threw"
  /\ args.entry = "cli"
  /\ pc' = "exit1"
  /\ UNCHANGED << args, plan, scale, data, lookups, w, i, currentStock, nextId,
                  calls, instances, prevCounts, ret >>

\* main(): the dataset generate() returned is handed to the exporter of the
\* format asked for, and the process ends
Export ==
  /\ pc = "done"
  /\ args.entry = "cli"
  /\ pc' = "exit0"
  /\ ret' = data
  /\ UNCHANGED << args, plan, scale, data, lookups, w, i, currentStock, nextId,
                  calls, instances, prevCounts >>

(***************************************************************************)
(* Stage 1: workspaces, each with its account.                             *)
(***************************************************************************)
generateWorkspaces ==
  /\ pc = "workspaces"
  /\ LET workspace == [id |-> nextId + 1]
         account == [id |-> nextId + 2, workspace_id |-> workspace.id]
         d == [data EXCEPT !.workspaces = Append(@, workspace),
                           !.accounts = Append(@, account)]
         lk == [lookups EXCEPT
                  !.workspaceProducts = MapSet(@, workspace.id, << >>),
                  !.workspacePosts = MapSet(@, workspace.id, << >>)]
     IN  /\ data' = d
         /\ lookups' = lk
         /\ nextId' = nextId + 2
         /\ Step(d, lk)
  /\ UNCHANGED << args, plan, scale, currentStock, calls, instances, prevCounts, ret >>

(***************************************************************************)
(* Stage 2: products.                                                      *)
(***************************************************************************)
\* generatePrice(category): Math.round(cat.avgPrice * randomFloat(0.5, 1.5))
generatePrice(avgPrice, factor) == Round(avgPrice * factor, Unit)

\* the prices drawn: Tops and Outerwear at the ends of the factor's range
PriceGrid ==
  { generatePrice(4999, 5000), generatePrice(14999, 5000),
    generatePrice(4999, 14999), generatePrice(14999, 14999) }

\* randomInt(CONFIG.inventory.initialStock.min, CONFIG.inventory.initialStock.max)
InitialStockGrid == {10, 250, 500}

generateProducts ==
  /\ pc = "products"
  /\ \E price \in Draw("pricing", PriceGrid, generatePrice(4999, Unit)),
        totalInventory \in Draw("stock", InitialStockGrid, 250) :
       LET workspace == data.workspaces[w]
           account == FindFirst(SelectSeq(data.accounts,
                                         LAMBDA a : a.workspace_id = workspace.id))
           product == [ id |-> nextId + 1,
                        workspace_id |-> workspace.id,
                        account_id |-> account.id,
                        price_cents |-> price,
                        total_inventory |-> totalInventory,
                        variants_count |-> scale.variantsPerProduct ]
           d == [data EXCEPT !.products = Append(@, product)]
           lk == [lookups EXCEPT
                    !.workspaceProducts = MapPush(@, workspace.id, product),
                    !.productVariants = MapSet(@, product.id, << >>)]
       IN  /\ data' = d
           /\ lookups' = lk
           /\ nextId' = nextId + 1
           /\ Step(d, lk)
  /\ UNCHANGED << args, plan, scale, currentStock, calls, instances, prevCounts, ret >>

(***************************************************************************)
(* Stage 3: product variants.                                              *)
(***************************************************************************)
\* randomInt(-5, 5)
JitterGrid == {-5, 5}

generateProductVariants ==
  /\ pc = "variants"
  /\ \E jitter \in Draw("catalog", JitterGrid, 5) :
       LET product == data.products[w]
           inventoryPerVariant == Round(product.total_inventory, scale.variantsPerProduct)
           variant == [ id |-> nextId + 1,
                        product_id |-> product.id,
                        inventory_quantity |-> clamp(inventoryPerVariant + jitter, 0, StockMax),
                        available |-> inventoryPerVariant > 0 ]
           d == [data EXCEPT !.product_variants = Append(@, variant)]
           lk == [lookups EXCEPT !.productVariants = MapPush(@, product.id, variant)]
       IN  /\ data' = d
           /\ lookups' = lk
           /\ nextId' = nextId + 1
           /\ Step(d, lk)
  /\ UNCHANGED << args, plan, scale, currentStock, calls, instances, prevCounts, ret >>

(***************************************************************************)
(* Stage 4: inventory history.                                             *)
(***************************************************************************)
\* randomInt(20, 100), added to the variant's quantity as the starting stock
StockOffsetGrid == {20, 100}

\* randomInt(0, 3)
ChangesPerDayGrid == {0, 3}

ChangeGridUnsigned ==
  { [source |-> "sale", amount |-> 5],
    [source |-> "restock", amount |-> 50],
    [source |-> "adjustment", amount |-> 0],
    [source |-> "return", amount |-> 2] }

\* a change source with the amount drawn for it: -randomInt(1, 5) for a sale,
\* randomInt(10, 50) for a restock, randomInt(-3, 3) for an adjustment,
\* randomInt(1, 2) for a return
ChangeGrid ==
  { [source |-> "sale", amount |-> -5],
    [source |-> "restock", amount |-> 50],
    [source |-> "adjustment", amount |-> 0],
    [source |-> "return", amount |-> 2] }

historyRecordRequested(id, variant, previousQuantity, stock, change) ==
  [ id |-> id,
    variant_id |-> variant.id,
    product_id |-> variant.product_id,
    previous_quantity |-> previousQuantity,
    new_quantity |-> stock,
    change_amount |-> change.amount,
    change_source |-> change.source ]

historyRecordBackdated(id, variant, previousQuantity, stock, change) ==
  [ id |-> id,
    variant_id |-> variant.id,
    product_id |-> variant.product_id,
    previous_quantity |-> stock - change.amount,
    new_quantity |-> stock,
    change_amount |-> change.amount,
    change_source |-> change.source ]

\* the historyRecord literal
historyRecord(id, variant, previousQuantity, stock, change) ==
  [ id |-> id,
    variant_id |-> variant.id,
    product_id |-> variant.product_id,
    previous_quantity |-> previousQuantity,
    new_quantity |-> stock,
    change_amount |-> stock - previousQuantity,
    change_source |-> change.source ]

RECURSIVE applyChangesAlways(_, _, _, _)
applyChangesAlways(variant, stock, changes, id) ==
  IF changes = << >> THEN [stock |-> stock, records |-> << >>, id |-> id]
  ELSE LET change == Head(changes)
           newStock == clamp(stock + change.amount, 0, StockMax)
           rest == applyChangesAlways(variant, newStock, Tail(changes), id + 1)
       IN  [ stock |-> rest.stock,
             records |-> << historyRecord(id + 1, variant, stock, newStock, change) >>
                         \o rest.records,
             id |-> rest.id ]

\* one day of a variant: the changes applied in turn to the running stock, a
\* record pushed for each change that moved the clamped stock
RECURSIVE applyChanges(_, _, _, _)
applyChanges(variant, stock, changes, id) ==
  IF changes = << >> THEN [stock |-> stock, records |-> << >>, id |-> id]
  ELSE LET change == Head(changes)
           previousQuantity == stock
           newStock == clamp(stock + change.amount, 0, StockMax)
           pushed == previousQuantity # newStock
           rest == applyChanges(variant, newStock, Tail(changes),
                                IF pushed THEN id + 1 ELSE id)
       IN  [ stock |-> rest.stock,
             records |-> IF pushed
                         THEN << historyRecord(id + 1, variant, previousQuantity,
                                               newStock, change) >> \o rest.records
                         ELSE rest.records,
             id |-> rest.id ]

generateInventoryHistory ==
  /\ pc = "inventory"
  /\ \E offset \in IF i = 0 THEN Draw("ledger", StockOffsetGrid, 20) ELSE {0},
        changesPerDay \in Draw("inventory", ChangesPerDayGrid, 1) :
       \E changes \in [1..changesPerDay ->
                         Draw("ledger", ChangeGrid, [source |-> "sale", amount |-> -5])] :
         LET variant == data.product_variants[w]
             stock == IF i = 0 THEN variant.inventory_quantity + offset ELSE currentStock
             day == applyChanges(variant, stock, changes, nextId)
             d == [data EXCEPT !.inventory_history = @ \o day.records]
         IN  /\ data' = d
             /\ currentStock' = day.stock
             /\ nextId' = day.id
             /\ Step(d, lookups)
  /\ UNCHANGED << args, plan, scale, lookups, calls, instances, prevCounts, ret >>

(***************************************************************************)
(* Stage 5: social posts.                                                  *)
(***************************************************************************)
\* randomDate(daysAgo(daysOfHistory), new Date()): the ends of the window
DateGrid(days) == {0 - days, 0}

\* randomBool(0.7) ? randomChoice(products) : null, then linkedProduct?.id || null
LinkedProductGrid(products) == {Null} \cup {products[n].id : n \in 1..Len(products)}

generateSocialPosts ==
  /\ pc = "posts"
  /\ LET workspace == data.workspaces[w]
         account == FindFirst(SelectSeq(data.accounts,
                                         LAMBDA a : a.workspace_id = workspace.id))
         products == MapGet(lookups.workspaceProducts, workspace.id)
     IN  \E postedAt \in Draw("social", DateGrid(scale.daysOfHistory),
                              0 - Min(1, scale.daysOfHistory)),
            linked \in Draw("social", LinkedProductGrid(products),
                            IF products = << >> THEN Null ELSE products[1].id) :
           LET post == [ id |-> nextId + 1,
                         workspace_id |-> workspace.id,
                         account_id |-> account.id,
                         product_id |-> linked,
                         posted_at |-> postedAt,
                         created_at |-> postedAt ]
               d == [data EXCEPT !.social_posts = Append(@, post)]
               lk == [lookups EXCEPT !.workspacePosts = MapPush(@, workspace.id, post)]
           IN  /\ data' = d
               /\ lookups' = lk
               /\ nextId' = nextId + 1
               /\ Step(d, lk)
  /\ UNCHANGED << args, plan, scale, currentStock, calls, instances, prevCounts, ret >>

(***************************************************************************)
(* Stage 6: post metrics.                                                  *)
(***************************************************************************)
\* Math.exp(-day * 0.1), in ten-thousandths, for the 30 days a post has metrics
decayFactor(day) ==
  << 10000, 9048, 8187, 7408, 6703, 6065, 5488, 4966, 4493, 4066,
     3679, 3329, 3012, 2725, 2466, 2231, 2019, 1827, 1653, 1496,
     1353, 1225, 1108, 1003, 907, 821, 743, 672, 608, 550 >>[day + 1]

\* randomInt(100, 10000)
BaseReachGrid == {100, 10000}

\* randomFloat(1.2, 2.5), in ten-thousandths
ImpressionFactorGrid == {12000, 24999}

generateEngagementMetricsShrunk(reach, factor) ==
  [ impressions |-> Round(reach * Unit, factor), reach |-> reach ]

\* generateEngagementMetrics(reach): the counts the other stages read
generateEngagementMetrics(reach, factor) ==
  [ impressions |-> Round(reach * factor, Unit), reach |-> reach ]

generatePostMetrics ==
  /\ pc = "metrics"
  /\ \E base \in Draw("metrics", BaseReachGrid, 10000),
        factor \in Draw("metrics", ImpressionFactorGrid, 12000) :
       LET post == data.social_posts[w]
           day == i
           baseReach == Round(base * decayFactor(day), Unit)
           metrics == generateEngagementMetrics(baseReach, factor)
           postMetric == [ id |-> nextId + 1,
                           post_id |-> post.id,
                           account_id |-> post.account_id,
                           metric_date |-> post.posted_at + day,
                           impressions |-> metrics.impressions,
                           reach |-> metrics.reach ]
           d == [data EXCEPT !.post_metrics = Append(@, postMetric)]
       IN  /\ data' = d
           /\ nextId' = nextId + 1
           /\ Step(d, lookups)
  /\ UNCHANGED << args, plan, scale, lookups, currentStock, calls, instances,
                  prevCounts, ret >>

(***************************************************************************)
(* Stage 7: garment bindings and the funnel metrics.                       *)
(***************************************************************************)
\* CONFIG.funnelRates, each range in ten-thousandths
funnelRates ==
  [ engagementToDM |-> [min |-> 200, max |-> 800],
    dmToPhotoRequest |-> [min |-> 6000, max |-> 8500],
    photoRequestToReceived |-> [min |-> 3500, max |-> 5500],
    photoToTryon |-> [min |-> 8000, max |-> 9500],
    tryonToLinkClick |-> [min |-> 4000, max |-> 6500],
    linkClickToPurchase |-> [min |-> 1500, max |-> 3000] ]

\* calculateConversionRate(baseRate) = randomFloat(min, max): the least and the
\* greatest value of [min, max)
RateGrid(baseRate) == {baseRate.min, baseRate.max - 1}

\* one sampled rate for each of the six calls made by generateFunnelMetrics
SampledRates(rates) ==
  { [ engagementToDM |-> r1, dmToPhotoRequest |-> r2, photoRequestToReceived |-> r3,
      photoToTryon |-> r4, tryonToLinkClick |-> r5, linkClickToPurchase |-> r6 ] :
      r1 \in RateGrid(rates.engagementToDM), r2 \in RateGrid(rates.dmToPhotoRequest),
      r3 \in RateGrid(rates.photoRequestToReceived), r4 \in RateGrid(rates.photoToTryon),
      r5 \in RateGrid(rates.tryonToLinkClick), r6 \in RateGrid(rates.linkClickToPurchase) }

HighestRates(rates) == [k \in DOMAIN rates |-> rates[k].max - 1]

toFixed2Inverse(p, q) == Round(q * 100 * 100, Max(p, 1))
\* Number((x * 100).toFixed(2)) for x = p / q, in hundredths of a percent
toFixed2(p, q) == Round(p * 100 * 100, q)

generateFunnelMetricsSwapped(totalTriggers, r) ==
  LET dmConversations == Round(totalTriggers * r.engagementToDM, Unit)
      photoRequests == Round(dmConversations * r.dmToPhotoRequest, Unit)
      photosReceived == Round(photoRequests * r.photoRequestToReceived, Unit)
      tryonsCompleted == Round(photosReceived * r.photoToTryon, Unit)
      linkClicks == Round(tryonsCompleted * r.tryonToLinkClick, Unit)
      purchases == Round(linkClicks * r.linkClickToPurchase, Unit)
  IN  [ total_triggers |-> totalTriggers,
        total_dm_conversations |-> dmConversations,
        total_photo_requests |-> photosReceived,
        total_photos_received |-> photoRequests,
        total_generations |-> photosReceived,
        successful_generations |-> tryonsCompleted,
        total_purchases |-> purchases,
        trigger_to_dm_rate |->
          IF totalTriggers > 0 THEN toFixed2(dmConversations, totalTriggers) ELSE 0,
        dm_to_photo_rate |->
          IF dmConversations > 0 THEN toFixed2(photosReceived, dmConversations) ELSE 0,
        photo_to_success_rate |->
          IF photosReceived > 0 THEN toFixed2(tryonsCompleted, photosReceived) ELSE 0,
        overall_conversion_rate |->
          IF totalTriggers > 0 THEN toFixed2(purchases, totalTriggers) ELSE 0 ]

\* generateFunnelMetrics(totalTriggers, rates), r the six rates it samples
generateFunnelMetrics(totalTriggers, r) ==
  LET dmConversations == Round(totalTriggers * r.engagementToDM, Unit)
      photoRequests == Round(dmConversations * r.dmToPhotoRequest, Unit)
      photosReceived == Round(photoRequests * r.photoRequestToReceived, Unit)
      tryonsCompleted == Round(photosReceived * r.photoToTryon, Unit)
      linkClicks == Round(tryonsCompleted * r.tryonToLinkClick, Unit)
      purchases == Round(linkClicks * r.linkClickToPurchase, Unit)
  IN  [ total_triggers |-> totalTriggers,
        total_dm_conversations |-> dmConversations,
        total_photo_requests |-> photoRequests,
        total_photos_received |-> photosReceived,
        total_generations |-> photosReceived,
        successful_generations |-> tryonsCompleted,
        total_purchases |-> purchases,
        trigger_to_dm_rate |->
          IF totalTriggers > 0 THEN toFixed2(dmConversations, totalTriggers) ELSE 0,
        dm_to_photo_rate |->
          IF dmConversations > 0 THEN toFixed2(photosReceived, dmConversations) ELSE 0,
        photo_to_success_rate |->
          IF photosReceived > 0 THEN toFixed2(tryonsCompleted, photosReceived) ELSE 0,
        overall_conversion_rate |->
          IF totalTriggers > 0 THEN toFixed2(purchases, totalTriggers) ELSE 0 ]

\* randomFloat(0.001, 0.01), in ten-thousandths
TriggerRateGrid == {10, 99}

RECURSIVE SumImpressions(_)
SumImpressions(ms) ==
  IF ms = << >> THEN 0 ELSE Head(ms).impressions + SumImpressions(Tail(ms))

bindingOfDangling(id, post, product, funnelMetrics) ==
  [ id |-> id,
    post_id |-> id,
    product_id |-> product.id,
    workspace_id |-> post.workspace_id,
    account_id |-> post.account_id,
    is_active |-> TRUE,
    created_at |-> post.created_at,
    total_revenue_cents |-> funnelMetrics.total_purchases * product.price_cents ]
  @@ funnelMetrics

bindingOfGenerations(id, post, product, funnelMetrics) ==
  [ id |-> id,
    post_id |-> post.id,
    product_id |-> product.id,
    workspace_id |-> post.workspace_id,
    account_id |-> post.account_id,
    is_active |-> TRUE,
    created_at |-> post.created_at,
    total_revenue_cents |-> funnelMetrics.successful_generations * product.price_cents ]
  @@ funnelMetrics

\* the binding literal
bindingOf(id, post, product, funnelMetrics) ==
  [ id |-> id,
    post_id |-> post.id,
    product_id |-> product.id,
    workspace_id |-> post.workspace_id,
    account_id |-> post.account_id,
    is_active |-> TRUE,
    created_at |-> post.created_at,
    total_revenue_cents |-> funnelMetrics.total_purchases * product.price_cents ]
  @@ funnelMetrics

generateGarmentBindings ==
  /\ pc = "bindings"
  /\ LET post == data.social_posts[w]
         product == IF post.product_id = Null THEN None
                    ELSE FindFirst(SelectSeq(data.products, LAMBDA p : p.id = post.product_id))
     IN  IF product.id = Null
         THEN /\ Step(data, lookups)
              /\ UNCHANGED << data, lookups, nextId >>
         ELSE \E rate \in Draw("social", TriggerRateGrid, 99),
                 r \in Draw("funnel", SampledRates(funnelRates), HighestRates(funnelRates)) :
                LET postMetrics == SelectSeq(data.post_metrics, LAMBDA m : m.post_id = post.id)
                    totalImpressions == SumImpressions(postMetrics)
                    totalTriggers == Round(totalImpressions * rate, Unit)
                    funnelMetrics == generateFunnelMetrics(totalTriggers, r)
                    binding == bindingOf(nextId + 1, post, product, funnelMetrics)
                    d == [data EXCEPT !.garment_bindings = Append(@, binding)]
                    lk == [lookups EXCEPT !.postBindings = MapSet(@, post.id, binding)]
                IN  /\ data' = d
                    /\ lookups' = lk
                    /\ nextId' = nextId + 1
                    /\ Step(d, lk)
  /\ UNCHANGED << args, plan, scale, currentStock, calls, instances, prevCounts, ret >>

(***************************************************************************)
(* Stage 8: conversations.                                                 *)
(***************************************************************************)
\* generateHash(16): two tokens that can collide, or (outside the focus) a
\* token no other call returns
TokenGrid == {1, 2}
FreshToken == 100 + nextId

resultedInTryonNarrow(state) == state \in {"result_sent", "completed"}
\* ['processing_tryon', 'result_sent', 'completed'].includes(state)
resultedInTryon(state) == state \in {"processing_tryon", "result_sent", "completed"}

\* the conversation literal, c the values drawn for it: [customerId, state,
\* purchaseDraw, binding, startedAt, lastMessageAt]
conversationOf(id, workspace, account, c, d) ==
  LET tryon == resultedInTryon(c.state)
      purchase == tryon /\ c.purchaseDraw
      product == IF c.binding.id = Null THEN None
                 ELSE FindFirst(SelectSeq(d.products, LAMBDA p : p.id = c.binding.product_id))
  IN  [ id |-> id,
        workspace_id |-> workspace.id,
        account_id |-> account.id,
        participant_id |-> c.customerId,
        conversation_state |-> c.state,
        category |-> IF tryon THEN "tryon" ELSE "general",
        started_at |-> c.startedAt,
        last_message_at |-> c.lastMessageAt,
        resulted_in_tryon |-> tryon,
        resulted_in_purchase |-> purchase,
        purchase_amount_cents |->
          IF purchase /\ c.binding.id # Null
          THEN (IF product.id = Null \/ product.price_cents = 0 THEN 5000
                ELSE product.price_cents)
          ELSE Null,
        created_at |-> c.startedAt ]

generateConversations ==
  /\ pc = "conversations"
  /\ LET workspace == data.workspaces[w]
         account == FindFirst(SelectSeq(data.accounts,
                                         LAMBDA a : a.workspace_id = workspace.id))
         bindings == SelectSeq(data.garment_bindings,
                               LAMBDA b : b.workspace_id = workspace.id)
     IN  \E customerId \in Draw("dialog", TokenGrid, FreshToken),
            startedAt \in Draw("dialog", DateGrid(scale.daysOfHistory), 0 - scale.daysOfHistory),
            state \in Draw("dialog", Range(conversationStates), "completed"),
            purchaseDraw \in Draw("dialog", BOOLEAN, TRUE),
            binding \in IF bindings = << >> THEN {None}
                        ELSE Draw("dialog", Range(bindings), bindings[1]) :
           \E lastMessageAt \in Draw("dialog", {startedAt, 0}, 0) :
             LET conversation ==
                   conversationOf(nextId + 1, workspace, account,
                                  [ customerId |-> customerId, state |-> state,
                                    purchaseDraw |-> purchaseDraw, binding |-> binding,
                                    startedAt |-> startedAt,
                                    lastMessageAt |-> lastMessageAt ], data)
                 d == [data EXCEPT !.conversations = Append(@, conversation)]
                 known == IF MapHas(lookups.customerConversations, customerId)
                          THEN lookups.customerConversations
                          ELSE MapSet(lookups.customerConversations, customerId, << >>)
                 lk == [lookups EXCEPT
                          !.customerConversations = MapPush(known, customerId, conversation)]
             IN  /\ data' = d
                 /\ lookups' = lk
                 /\ nextId' = nextId + 1
                 /\ Step(d, lk)
  /\ UNCHANGED << args, plan, scale, currentStock, calls, instances, prevCounts, ret >>

(***************************************************************************)
(* Stage 9: orders.                                                        *)
(***************************************************************************)
\* randomInt(1, 4)
ItemCountGrid == {1, 4}

\* randomBool(0.7) ? 0 : randomInt(500, 1500)
ShippingGrid == {0, 500, 1500}

\* randomBool(0.2) ? randomFloat(0.1, 0.3) : 0, in ten-thousandths
DiscountGrid == {0, 1000, 2999}

generateOrdersAnyWorkspace ==
  /\ pc = "orders"
  /\ LET workspace == data.workspaces[w]
         account == FindFirst(SelectSeq(data.accounts,
                                         LAMBDA a : a.workspace_id = workspace.id))
         products == MapGet(lookups.workspaceProducts, workspace.id)
         conversations == SelectSeq(data.conversations, LAMBDA c : c.resulted_in_purchase)
     IN  \E product \in Draw("orders", Range(products), products[1]),
            itemCount \in Draw("orders", ItemCountGrid, 1),
            shipping \in Draw("orders", ShippingGrid, 0),
            discountRate \in Draw("orders", DiscountGrid, 0),
            hash \in Draw("orders", TokenGrid, FreshToken) :
           LET subtotal == product.price_cents * itemCount
               tax == Round(subtotal * 8, 100)
               discount == Round(subtotal * discountRate, Unit)
               conversation == IF i < Len(conversations) THEN conversations[i + 1] ELSE None
               binding == IF conversation.id = Null THEN None
                          ELSE FindFirst(SelectSeq(data.garment_bindings,
                                         LAMBDA b : b.workspace_id = workspace.id))
               order == [ id |-> nextId + 1,
                          workspace_id |-> workspace.id,
                          account_id |-> account.id,
                          order_number |-> 1000 + i,
                          customer_id |-> IF conversation.id = Null THEN hash
                                          ELSE conversation.participant_id,
                          total_price_cents |-> subtotal + tax + shipping - discount,
                          subtotal_cents |-> subtotal,
                          tax_cents |-> tax,
                          shipping_cents |-> shipping,
                          discount_cents |-> discount,
                          line_items_count |-> itemCount,
                          attributed_to_tryon |-> conversation.id # Null,
                          conversation_id |-> conversation.id,
                          binding_id |-> binding.id ]
               d == [data EXCEPT !.orders = Append(@, order)]
           IN  /\ data' = d
               /\ nextId' = nextId + 1
               /\ Step(d, lookups)
  /\ UNCHANGED << args, plan, scale, lookups, currentStock, calls, instances,
                  prevCounts, ret >>

generateOrders ==
  /\ pc = "orders"
  /\ LET workspace == data.workspaces[w]
         account == FindFirst(SelectSeq(data.accounts,
                                         LAMBDA a : a.workspace_id = workspace.id))
         products == MapGet(lookups.workspaceProducts, workspace.id)
         conversations == SelectSeq(data.conversations,
                            LAMBDA c : c.workspace_id = workspace.id /\ c.resulted_in_purchase)
     IN  \E product \in Draw("orders", Range(products), products[1]),
            itemCount \in Draw("orders", ItemCountGrid, 1),
            shipping \in Draw("orders", ShippingGrid, 0),
            discountRate \in Draw("orders", DiscountGrid, 0),
            hash \in Draw("orders", TokenGrid, FreshToken) :
           LET subtotal == product.price_cents * itemCount
               tax == Round(subtotal * 8, 100)
               discount == Round(subtotal * discountRate, Unit)
               conversation == IF i < Len(conversations) THEN conversations[i + 1] ELSE None
               binding == IF conversation.id = Null THEN None
                          ELSE FindFirst(SelectSeq(data.garment_bindings,
                                         LAMBDA b : b.workspace_id = workspace.id))
               order == [ id |-> nextId + 1,
                          workspace_id |-> workspace.id,
                          account_id |-> account.id,
                          order_number |-> 1000 + i,
                          customer_id |-> IF conversation.id = Null THEN hash
                                          ELSE conversation.participant_id,
                          total_price_cents |-> subtotal + tax + shipping - discount,
                          subtotal_cents |-> subtotal,
                          tax_cents |-> tax,
                          shipping_cents |-> shipping,
                          discount_cents |-> discount,
                          line_items_count |-> itemCount,
                          attributed_to_tryon |-> conversation.id # Null,
                          conversation_id |-> conversation.id,
                          binding_id |-> binding.id ]
               d == [data EXCEPT !.orders = Append(@, order)]
           IN  /\ data' = d
               /\ nextId' = nextId + 1
               /\ Step(d, lookups)
  /\ UNCHANGED << args, plan, scale, lookups, currentStock, calls, instances,
                  prevCounts, ret >>

(***************************************************************************)
(* Stage 10: customer journeys.                                            *)
(***************************************************************************)
\* the event sequences a session can take (eventSequences)
eventSequences ==
  << << "post_view" >>,
     << "post_view", "post_like" >>,
     << "post_view", "post_comment" >>,
     << "post_view", "post_like", "dm_started" >>,
     << "post_view", "post_comment", "trigger_keyword", "dm_started" >>,
     << "post_view", "dm_started", "photo_requested" >>,
     << "post_view", "dm_started", "photo_requested", "photo_received", "tryon_completed" >>,
     << "post_view", "dm_started", "photo_received", "tryon_completed",
        "product_link_clicked" >>,
     << "post_view", "dm_started", "photo_received", "tryon_completed",
        "product_link_clicked", "purchase_completed" >> >>

getEventFunnelStageKeywordLate(eventType) ==
  CASE eventType \in {"post_view", "post_like", "post_comment", "post_save",
                      "post_share"} -> 1
    [] eventType \in {"dm_started", "bot_greeting"} -> 2
    [] eventType \in {"photo_requested", "photo_received", "tryon_started",
                      "tryon_completed", "tryon_failed", "trigger_keyword"} -> 3
    [] eventType \in {"product_link_clicked", "add_to_cart", "checkout_started",
                      "purchase_completed"} -> 4
    [] eventType \in {"review_submitted", "return_initiated", "repeat_visit"} -> 5
    [] OTHER -> 1

\* getEventFunnelStage(eventType): stageMap[eventType] || 1
getEventFunnelStage(eventType) ==
  CASE eventType \in {"post_view", "post_like", "post_comment", "post_save",
                      "post_share"} -> 1
    [] eventType \in {"dm_started", "trigger_keyword", "bot_greeting"} -> 2
    [] eventType \in {"photo_requested", "photo_received", "tryon_started",
                      "tryon_completed", "tryon_failed"} -> 3
    [] eventType \in {"product_link_clicked", "add_to_cart", "checkout_started",
                      "purchase_completed"} -> 4
    [] eventType \in {"review_submitted", "return_initiated", "repeat_visit"} -> 5
    [] OTHER -> 1

\* timeRanges[eventType] || [5000, 60000], the milliseconds as whole seconds
timeRange(eventType) ==
  CASE eventType = "post_view" -> << 2, 10 >>
    [] eventType = "post_like" -> << 5, 30 >>
    [] eventType = "post_comment" -> << 10, 60 >>
    [] eventType = "dm_started" -> << 60, 300 >>
    [] eventType = "trigger_keyword" -> << 30, 120 >>
    [] eventType = "photo_requested" -> << 60, 1800 >>
    [] eventType = "photo_received" -> << 5, 30 >>
    [] eventType = "tryon_completed" -> << 10, 60 >>
    [] eventType = "product_link_clicked" -> << 30, 300 >>
    [] OTHER -> << 5, 60 >>

getTimeToNextEventBackwards(eventType, end) == 0 - timeRange(eventType)[end]
\* getTimeToNextEvent(eventType): randomInt(range[0], range[1]), end 1 the least
\* and end 2 the greatest value
getTimeToNextEvent(eventType, end) == timeRange(eventType)[end]

\* timestamps are in seconds from the midnight that began the day of the run
HourSeconds == 3600
DaySeconds == 24 * HourSeconds

\* the time of day at which the run is made
NowOfDay == 12 * HourSeconds

\* a date of getSeasonallyWeightedDate(daysOfHistory): daysAgo(daysOfHistory)
\* moved randomDay days on and set by setHours to the hour drawn, the minute
\* and the second drawn being 0, the least value of randomInt(0, 59)
seasonalDate(daysOfHistory, randomDay, hour) ==
  (randomDay - daysOfHistory) * DaySeconds + hour * HourSeconds

\* the events of one session, from eventIndex on, the clock at eventTime
RECURSIVE sessionEvents(_, _, _, _, _, _)
sessionEvents(session, sequence, eventIndex, eventTime, end, id) ==
  IF eventIndex > Len(sequence) THEN << >>
  ELSE LET eventType == sequence[eventIndex]
           journey == [ id |-> id + 1,
                        event_type |-> eventType,
                        event_timestamp |-> eventTime,
                        funnel_stage |-> getEventFunnelStage(eventType),
                        converted_to_next_stage |-> eventIndex < Len(sequence),
                        session_event_number |-> eventIndex,
                        is_session_first_event |-> eventIndex = 1,
                        is_session_last_event |-> eventIndex = Len(sequence) ] @@ session
       IN  << journey >> \o
           sessionEvents(session, sequence, eventIndex + 1,
                         eventTime + getTimeToNextEvent(eventType, end), end, id + 1)

generateCustomerJourneys ==
  /\ pc = "journeys"
  /\ LET workspace == data.workspaces[w]
         posts == MapGet(lookups.workspacePosts, workspace.id)
         products == MapGet(lookups.workspaceProducts, workspace.id)
     IN  \E customerId \in Draw("journey", TokenGrid, FreshToken),
            randomDay \in Draw("calendar", {0, scale.daysOfHistory}, 0),
            hour \in Draw("calendar", {0, 23}, 12),
            post \in Draw("journey", Range(posts), posts[1]),
            product \in Draw("journey", Range(products), products[1]),
            sequenceIndex \in Draw("journey", 1..Len(eventSequences), 1),
            end \in Draw("journey", {1, 2}, 1) :
           LET conversation == FindFirst(SelectSeq(data.conversations,
                                 LAMBDA c : c.participant_id = customerId
                                            /\ c.workspace_id = workspace.id))
               session == [ session_id |-> nextId + 1,
                            customer_id |-> customerId,
                            workspace_id |-> workspace.id,
                            post_id |-> post.id,
                            product_id |-> product.id,
                            conversation_id |-> conversation.id ]
               events == sessionEvents(session, eventSequences[sequenceIndex], 1,
                                       seasonalDate(scale.daysOfHistory, randomDay, hour),
                                       end, nextId + 1)
               d == [data EXCEPT !.customer_journeys = @ \o events]
           IN  /\ data' = d
               /\ nextId' = nextId + 1 + Len(events)
               /\ Step(d, lookups)
  /\ UNCHANGED << args, plan, scale, lookups, currentStock, calls, instances,
                  prevCounts, ret >>

(***************************************************************************)
(* Stage 11: daily aggregates.                                             *)
(***************************************************************************)
\* products.filter(() => randomBool(0.1)): any of the products, in their order
RECURSIVE Subsequences(_)
Subsequences(s) ==
  IF s = << >> THEN { << >> }
  ELSE LET rest == Subsequences(Tail(s))
       IN  rest \cup { << Head(s) >> \o t : t \in rest }

RECURSIVE productAggregates(_, _, _, _)
productAggregates(workspace, products, metricDate, id) ==
  IF products = << >> THEN << >>
  ELSE << [ id |-> id + 1,
            workspace_id |-> workspace.id,
            product_id |-> Head(products).id,
            metric_date |-> metricDate ] >>
       \o productAggregates(workspace, Tail(products), metricDate, id + 1)

generateDailyAggregates ==
  /\ pc = "aggregates"
  /\ LET workspace == data.workspaces[w]
         products == MapGet(lookups.workspaceProducts, workspace.id)
         day == i
         metricDate == 0 - (scale.daysOfHistory - day)
     IN  \E sampled \in Draw("aggregates", Subsequences(products), << >>) :
           LET wsAggregate == [ id |-> nextId + 1,
                                workspace_id |-> workspace.id,
                                product_id |-> Null,
                                metric_date |-> metricDate ]
               rows == << wsAggregate >>
                       \o productAggregates(workspace, sampled, metricDate, nextId + 1)
               d == [data EXCEPT !.daily_aggregates = @ \o rows]
           IN  /\ data' = d
               /\ nextId' = nextId + Len(rows)
               /\ Step(d, lookups)
  /\ UNCHANGED << args, plan, scale, lookups, currentStock, calls, instances,
                  prevCounts, ret >>

(***************************************************************************)
(* Stage 12: customer profiles.                                            *)
(***************************************************************************)
RECURSIVE SumRevenue(_)
SumRevenue(cs) ==
  IF cs = << >> THEN 0 ELSE Head(cs).purchase_amount_cents + SumRevenue(Tail(cs))

customerSegmentRecencyFirst(totalPurchases, totalRevenue, daysSinceLastSeen, totalTryons) ==
  IF totalPurchases >= 3 \/ totalRevenue > 30000 THEN "high_value"
  ELSE IF daysSinceLastSeen > 60 THEN "churned"
  ELSE IF daysSinceLastSeen > 30 THEN "at_risk"
  ELSE IF totalPurchases >= 1 THEN "regular"
  ELSE "casual"

\* the decision table of generateCustomerProfiles, the first match winning
customerSegment(totalPurchases, totalRevenue, daysSinceLastSeen, totalTryons) ==
  IF totalPurchases >= 3 \/ totalRevenue > 30000 THEN "high_value"
  ELSE IF totalPurchases >= 1 THEN "regular"
  ELSE IF daysSinceLastSeen > 60 THEN "churned"
  ELSE IF daysSinceLastSeen > 30 THEN "at_risk"
  ELSE IF totalTryons > 0 THEN "casual"
  ELSE "casual"

profileOfWorkspace(id, customerId, workspace, conversations) ==
  [ id |-> id,
    customer_id |-> workspace.id,
    workspace_id |-> workspace.id,
    first_seen_at |-> conversations[1].started_at,
    last_seen_at |-> conversations[Len(conversations)].last_message_at,
    total_sessions |-> Len(conversations),
    total_dm_conversations |-> Len(conversations),
    total_tryons |-> 0,
    total_purchases |-> 0,
    total_revenue_cents |-> 0,
    avg_order_value_cents |-> 0,
    customer_segment |-> "casual" ]

\* the body of the loop of generateCustomerProfiles: the profile of one key of
\* lookups.customerConversations
profileOf(id, customerId, workspace, conversations) ==
  LET totalPurchases == Len(SelectSeq(conversations, LAMBDA c : c.resulted_in_purchase))
      totalRevenue == SumRevenue(conversations)
      totalTryons == Len(SelectSeq(conversations, LAMBDA c : c.resulted_in_tryon))
      lastSeen == conversations[Len(conversations)].last_message_at
  IN  [ id |-> id,
        customer_id |-> customerId,
        workspace_id |-> workspace.id,
        first_seen_at |-> conversations[1].started_at,
        last_seen_at |-> lastSeen,
        total_sessions |-> Len(conversations),
        total_dm_conversations |-> Len(conversations),
        total_tryons |-> totalTryons,
        total_purchases |-> totalPurchases,
        total_revenue_cents |-> totalRevenue,
        avg_order_value_cents |->
          IF totalPurchases > 0 THEN Round(totalRevenue, totalPurchases) ELSE 0,
        customer_segment |->
          customerSegment(totalPurchases, totalRevenue, daysSince(lastSeen), totalTryons) ]

generateCustomerProfilesConsuming ==
  /\ pc = "profiles"
  /\ LET customerId == lookups.customerConversations[w].key
         conversations == lookups.customerConversations[w].value
         workspace == FindFirst(SelectSeq(data.workspaces,
                                LAMBDA x : x.id = conversations[1].workspace_id))
         profile == profileOf(nextId + 1, customerId, workspace, conversations)
         d == [data EXCEPT !.customer_profiles = Append(@, profile),
                           !.conversations =
                              SelectSeq(@, LAMBDA c : c.participant_id # customerId)]
     IN  /\ data' = d
         /\ nextId' = nextId + 1
         /\ Step(d, lookups)
  /\ UNCHANGED << args, plan, scale, lookups, currentStock, calls, instances,
                  prevCounts, ret >>

generateCustomerProfiles ==
  /\ pc = "profiles"
  /\ LET customerId == lookups.customerConversations[w].key
         conversations == lookups.customerConversations[w].value
         workspace == FindFirst(SelectSeq(data.workspaces,
                                LAMBDA x : x.id = conversations[1].workspace_id))
         profile == profileOf(nextId + 1, customerId, workspace, conversations)
         d == [data EXCEPT !.customer_profiles = Append(@, profile)]
     IN  /\ data' = d
         /\ nextId' = nextId + 1
         /\ Step(d, lookups)
  /\ UNCHANGED << args, plan, scale, lookups, currentStock, calls, instances,
                  prevCounts, ret >>

(***************************************************************************)
(* Stage 13: demand forecasts.                                             *)
(***************************************************************************)
\* days ahead
horizons == << 7, 14, 30 >>

generateDemandForecasts ==
  /\ pc = "forecasts"
  /\ LET product == data.products[w]
         forecast == [ id |-> nextId + 1,
                       product_id |-> product.id,
                       variant_id |-> Null,
                       workspace_id |-> product.workspace_id,
                       forecast_date |-> horizons[i + 1],
                       forecast_horizon_days |-> horizons[i + 1],
                       actual_demand |-> Null,
                       forecast_error |-> Null ]
         d == [data EXCEPT !.demand_forecasts = Append(@, forecast)]
     IN  /\ data' = d
         /\ nextId' = nextId + 1
         /\ Step(d, lookups)
  /\ UNCHANGED << args, plan, scale, lookups, currentStock, calls, instances,
                  prevCounts, ret >>

(***************************************************************************)
(* The pipeline: a run of the program from its invocation.                 *)
(***************************************************************************)
\* the invocations, each with what the model enumerates for it: the stages
\* whose draws range over their grids, whether the preset keeps its real
\* cardinalities, and how many generate() calls and instances the caller makes
Run(entry, name, focus) ==
  [entry |-> entry, scale |-> name, focus |-> focus, last |-> FALSE, exact |-> FALSE,
   calls |-> 1, instances |-> 1, faults |-> {}]

Runs ==
  { [Run("cli", "small", {}) EXCEPT !.exact = TRUE],
    Run("cli", "huge", {}),
    Run("api", "huge", {}),
    Run("api", "small", {"catalog", "stock"}),
    Run("api", "small", {"social"}),
    Run("api", "large", {"metrics"}),
    Run("cli", "medium", {"dialog"}),
    Run("cli", "small", {"journey"}),
    [Run("cli", "small", {"calendar"}) EXCEPT !.last = TRUE],
    Run("cli", "small", {"aggregates"}),
    [Run("api", "small", {"inventory"}) EXCEPT !.last = TRUE, !.instances = 2],
    [Run("api", "small", {}) EXCEPT !.calls = 2],
    [Run("cli", "small", {}) EXCEPT !.faults = Range(Stages)],
    [Run("api", "large", {}) EXCEPT !.faults = Range(Stages)] }

InitRun(r) ==
  /\ args = [entry |-> r.entry, scale |-> r.scale]
  /\ plan = [focus |-> r.focus, last |-> r.last, exact |-> r.exact,
             calls |-> r.calls, instances |-> r.instances, faults |-> r.faults]
  /\ pc = "start"
  /\ scale = Null
  /\ data = EmptyData
  /\ lookups = EmptyLookups
  /\ w = 0 /\ i = 0 /\ currentStock = 0
  /\ nextId = 0
  /\ calls = 0
  /\ instances = 0
  /\ prevCounts = NoCounts
  /\ ret = Null

Init == \E r \in Runs : InitRun(r)

Next ==
  \/ ValidateScale
  \/ Construct
  \/ Generate
  \/ StageThrows
  \/ CatchError
  \/ Export
  \/ generateWorkspaces
  \/ generateProducts
  \/ generateProductVariants
  \/ generateInventoryHistory
  \/ generateSocialPosts
  \/ generatePostMetrics
  \/ generateGarmentBindings
  \/ generateConversations
  \/ generateOrders
  \/ generateCustomerJourneys
  \/ generateDailyAggregates
  \/ generateCustomerProfiles
  \/ generateDemandForecasts

Spec == Init /\ [][Next]_vars

(***************************************************************************)
(* The inventory stage on its own: the pipeline up to the end of stage 4,  *)
(* the draws of the last product and of the last variant's ledger          *)
(* enumerated.                                                             *)
(***************************************************************************)
LedgerRuns ==
  { [Run("api", "small", {"stock", "inventory", "ledger"}) EXCEPT !.last = TRUE] }

InitInv == \E r \in LedgerRuns : InitRun(r)

NextInv ==
  \/ Construct
  \/ Generate
  \/ generateWorkspaces
  \/ generateProducts
  \/ generateProductVariants
  \/ generateInventoryHistory

SpecInv == InitInv /\ [][NextInv]_vars

(***************************************************************************)
(* The helpers applied on their own.                                       *)
(***************************************************************************)
\* a helper is called with the arguments in args and returns into ret
InitCall(a) ==
  /\ args = a
  /\ plan = [focus |-> {}, last |-> FALSE, exact |-> FALSE, calls |-> 0, instances |-> 0,
             faults |-> {}]
  /\ pc = "call"
  /\ scale = Null
  /\ data = EmptyData
  /\ lookups = EmptyLookups
  /\ w = 0 /\ i = 0 /\ currentStock = 0
  /\ nextId = 0
  /\ calls = 0
  /\ instances = 0
  /\ prevCounts = NoCounts
  /\ ret = Null

Return(value) ==
  /\ pc' = "returned"
  /\ ret' = value
  /\ UNCHANGED << args, plan, scale, data, lookups, w, i, currentStock, nextId,
                  calls, instances, prevCounts >>

\* the trigger counts generateFunnelMetrics is applied to
MaxTriggers == 500

InitFunnel ==
  \E totalTriggers \in 0..MaxTriggers, r \in SampledRates(funnelRates) :
    InitCall([entry |-> "generateFunnelMetrics", totalTriggers |-> totalTriggers,
              rates |-> r])

CallGenerateFunnelMetrics ==
  /\ pc = "call"
  /\ args.entry = "generateFunnelMetrics"
  /\ Return(generateFunnelMetrics(args.totalTriggers, args.rates))

SpecFunnel == InitFunnel /\ [][CallGenerateFunnelMetrics]_vars

\* weightedChoice(weightedItems): the loop from the item at k on, random in
\* ten-thousandths of a weight unit
RECURSIVE weightedScan(_, _, _)
weightedScan(weightedItems, k, random) ==
  IF k > Len(weightedItems) THEN weightedItems[Len(weightedItems)].item
  ELSE LET left == random - weightedItems[k].weight * Unit
       IN  IF left <= 0 THEN weightedItems[k].item
           ELSE weightedScan(weightedItems, k + 1, left)

RECURSIVE totalWeightOf(_)
totalWeightOf(weightedItems) ==
  IF weightedItems = << >> THEN 0
  ELSE Head(weightedItems).weight + totalWeightOf(Tail(weightedItems))

\* weightedChoice(weightedItems), u the value of Math.random() in ten-thousandths
weightedChoice(weightedItems, u) ==
  weightedScan(weightedItems, 1, u * totalWeightOf(weightedItems))

\* the longest table weightedChoice is applied to
MaxItems == 3

\* Math.random(): the least, a middle and the greatest value of [0, 1)
RandomGrid == {0, 5000, 9999}

WeightGrid == {0, 1, 3}

\* the non-empty tables of at most MaxItems items, the k-th item named k
Tables ==
  UNION { { [k \in 1..n |-> [item |-> k, weight |-> ws[k]]] : ws \in [1..n -> WeightGrid] }
          : n \in 1..MaxItems }

InitWeighted ==
  \E weightedItems \in Tables, u \in RandomGrid :
    InitCall([entry |-> "weightedChoice", weightedItems |-> weightedItems, random |-> u])

CallWeightedChoice ==
  /\ pc = "call"
  /\ args.entry = "weightedChoice"
  /\ Return(weightedChoice(args.weightedItems, args.random))

SpecWeighted == InitWeighted /\ [][CallWeightedChoice]_vars

\* the most conversations of one customer the profile is derived from
MaxConversations == 3

\* the days (relative to now) of a customer's last message: today, and just
\* past the 30 and the 60 days of the decision table
LastSeenGrid == {0, -30, -31, -60, -61}

\* purchase_amount_cents of a conversation with a purchase: none recorded (no
\* binding), the fallback, and two prices
AmountGrid == {Null, 5000, 15000, 22497}

\* what generateConversations can leave in the fields the profile reads: no
\* try-on, a try-on without a purchase, a try-on with a purchase
ConversationGrid ==
  { [ workspace_id |-> 1, started_at |-> -90, last_message_at |-> t,
      resulted_in_tryon |-> tryon, resulted_in_purchase |-> FALSE,
      purchase_amount_cents |-> Null ] : t \in LastSeenGrid, tryon \in BOOLEAN }
  \cup
  { [ workspace_id |-> 1, started_at |-> -90, last_message_at |-> t,
      resulted_in_tryon |-> TRUE, resulted_in_purchase |-> TRUE,
      purchase_amount_cents |-> a ] : t \in LastSeenGrid, a \in AmountGrid }

InitProfile ==
  \E n \in 1..MaxConversations :
    \E conversations \in [1..n -> ConversationGrid] :
      InitCall([entry |-> "profileOf", conversations |-> conversations])

CallProfileOf ==
  /\ pc = "call"
  /\ args.entry = "profileOf"
  /\ Return(profileOf(1, 1, [id |-> 1], args.conversations))

SpecProfile == InitProfile /\ [][CallProfileOf]_vars

\* the greatest reach generateEngagementMetrics is applied to, the greatest
\* value of randomInt(100, 10000) on the day of the post
MaxReach == 10000

\* randomFloat(1.2, 2.5) in ten-thousandths: the ends of the range, the value
\* next to the least, and one that leaves a half to round
FactorGrid == {12000, 12001, 15000, 24999}

InitEngagement ==
  \E reach \in 0..MaxReach, factor \in FactorGrid :
    InitCall([entry |-> "generateEngagementMetrics", reach |-> reach, factor |-> factor])

CallGenerateEngagementMetrics ==
  /\ pc = "call"
  /\ args.entry = "generateEngagementMetrics"
  /\ Return(generateEngagementMetrics(args.reach, args.factor))

SpecEngagement == InitEngagement /\ [][CallGenerateEngagementMetrics]_vars

\* probabilities are counted in 1/80000, which keeps a hundredth of the
\* multiplier, times 0.01, shared among 8 entries, a whole number
ProbUnit == 80000

\* eventProbabilities of generateCustomerJourneys
eventProbabilities == << 78400, 640, 320, 240, 120, 96, 80, 64, 40 >>

\* adjusted.reduce((a, b) => a + b, 0)
RECURSIVE SumOf(_)
SumOf(seq) == IF seq = << >> THEN 0 ELSE Head(seq) + SumOf(Tail(seq))

\* the adjusted array before it is normalized, mult the clamped multiplier in
\* hundredths
adjustedBy(baseProbs, mult) ==
  LET n == Len(baseProbs)
  IN  IF mult > 100
      THEN LET boost == (mult - 100) * (ProbUnit \div Unit)
           IN  [k \in 1..n |-> IF k = 1 THEN baseProbs[1] - boost
                               ELSE baseProbs[k] + boost \div (n - 1)]
      ELSE LET reduction == (100 - mult) * (ProbUnit \div Unit)
           IN  [k \in 1..n |-> IF k = 1 THEN baseProbs[1] + reduction
                               ELSE Max(0, baseProbs[k] - reduction \div (n - 1))]

adjustProbabilitiesUnnormalized(baseProbs, multiplier) ==
  LET adjusted == adjustedBy(baseProbs, clamp(multiplier, 30, 300))
  IN  [k \in 1..Len(adjusted) |-> [num |-> adjusted[k], den |-> ProbUnit]]

\* adjustProbabilities(baseProbs, multiplier), the multiplier in hundredths:
\* each entry p / sum as the fraction num / den
adjustProbabilities(baseProbs, multiplier) ==
  LET adjusted == adjustedBy(baseProbs, clamp(multiplier, 30, 300))
      sum == SumOf(adjusted)
  IN  [k \in 1..Len(adjusted) |-> [num |-> adjusted[k], den |-> sum]]

\* the greatest multiplier adjustProbabilities is applied to, in hundredths
MaxMultiplier == 400

InitAdjust ==
  \E multiplier \in 0..MaxMultiplier :
    InitCall([entry |-> "adjustProbabilities", multiplier |-> multiplier])

CallAdjustProbabilities ==
  /\ pc = "call"
  /\ args.entry = "adjustProbabilities"
  /\ Return(adjustProbabilities(eventProbabilities, args.multiplier))

SpecAdjust == InitAdjust /\ [][CallAdjustProbabilities]_vars

(***************************************************************************)
(* Properties.                                                             *)
(***************************************************************************)
\* exactly one record of parents has the identifier key
ResolvesOnce(key, parents) ==
  Cardinality({n \in 1..Len(parents) : parents[n].id = key}) = 1

\* C1: once generate() has completed, every foreign key names exactly one
\* parent record: the workspace_id of each product, post, order and journey
\* event names one workspace, the product_id of each variant names one product,
\* and the post_id and product_id of each garment binding name one post and one
\* product.
C1_ForeignKeysResolve ==
  pc = "done" =>
    /\ \A r \in Range(data.products) : ResolvesOnce(r.workspace_id, data.workspaces)
    /\ \A r \in Range(data.social_posts) : ResolvesOnce(r.workspace_id, data.workspaces)
    /\ \A r \in Range(data.orders) : ResolvesOnce(r.workspace_id, data.workspaces)
    /\ \A r \in Range(data.customer_journeys) :
         ResolvesOnce(r.workspace_id, data.workspaces)
    /\ \A r \in Range(data.product_variants) : ResolvesOnce(r.product_id, data.products)
    /\ \A r \in Range(data.garment_bindings) :
         /\ ResolvesOnce(r.post_id, data.social_posts)
         /\ ResolvesOnce(r.product_id, data.products)

\* a completed run whose posts were linked at random and that has bindings,
\* orders and journey events
C1_Witness ==
  /\ pc = "done"
  /\ "social" \in plan.focus
  /\ Len(data.garment_bindings) > 0
  /\ Len(data.garment_bindings) < Len(data.social_posts)
  /\ Len(data.product_variants) > 0
  /\ Len(data.orders) > 0
  /\ Len(data.customer_journeys) > 0

\* C2: the counts returned by generateFunnelMetrics for a trigger count of at
\* least 0 and rates sampled from the configured ranges never grow along the
\* funnel: purchases <= successful generations <= photos received <= photo
\* requests <= conversations <= triggers.
C2_FunnelMonotone ==
  pc = "returned" =>
    /\ ret.total_purchases <= ret.successful_generations
    /\ ret.successful_generations <= ret.total_photos_received
    /\ ret.total_photos_received <= ret.total_photo_requests
    /\ ret.total_photo_requests <= ret.total_dm_conversations
    /\ ret.total_dm_conversations <= ret.total_triggers

\* a funnel that loses customers at every step and still ends in purchases
C2_Witness ==
  /\ pc = "returned"
  /\ 0 < ret.total_purchases
  /\ ret.total_purchases < ret.successful_generations
  /\ ret.successful_generations < ret.total_photos_received
  /\ ret.total_photos_received < ret.total_photo_requests
  /\ ret.total_photo_requests < ret.total_dm_conversations
  /\ ret.total_dm_conversations < ret.total_triggers

\* C3: every record of the inventory history has change_amount equal to
\* new_quantity - previous_quantity, and a new_quantity from 0 to 500.
C3_LedgerRecords ==
  \A r \in Range(data.inventory_history) :
    /\ r.new_quantity - r.previous_quantity = r.change_amount
    /\ 0 <= r.new_quantity
    /\ r.new_quantity <= 500

\* a history in which a sale emptied the stock for less than the amount sold
C3_Witness ==
  \E r \in Range(data.inventory_history) :
    /\ r.change_source = "sale"
    /\ r.new_quantity = 0
    /\ r.change_amount > -5

\* a percentage in hundredths of a percent, from 0% to 100%
IsPercentage(x) == 0 <= x /\ x <= 100 * 100

\* C4: each of the four percentages returned by generateFunnelMetrics lies in
\* [0, 100], and a percentage whose denominator count is 0 is 0.
C4_Percentages ==
  pc = "returned" =>
    /\ IsPercentage(ret.trigger_to_dm_rate)
    /\ IsPercentage(ret.dm_to_photo_rate)
    /\ IsPercentage(ret.photo_to_success_rate)
    /\ IsPercentage(ret.overall_conversion_rate)
    /\ ret.total_triggers = 0 =>
         ret.trigger_to_dm_rate = 0 /\ ret.overall_conversion_rate = 0
    /\ ret.total_dm_conversations = 0 => ret.dm_to_photo_rate = 0
    /\ ret.total_photos_received = 0 => ret.photo_to_success_rate = 0

\* triggers that led to no conversation: two zero denominators next to a
\* percentage that is defined
C4_Witness ==
  /\ pc = "returned"
  /\ ret.total_triggers > 0
  /\ ret.total_dm_conversations = 0
  /\ ret.total_photos_received = 0

\* the first generate() of a generator built for the preset 'small' with the
\* preset's own cardinalities
SmallRun ==
  plan.exact /\ args.scale = "small" /\ calls = 1 /\ instances = 1

\* the stage has run to its end in the generate() call under way
Past(stage) ==
  \/ pc = "done"
  \/ pc \in Range(Stages) /\ StageIndex(pc) > StageIndex(stage)

\* C5: generate() with the preset 'small' yields 2 workspaces, 1 account for
\* each workspace, 20 products and 60 variants, and the product_id of every
\* variant is the id of one of the products.
C5_SmallCounts ==
  SmallRun =>
    /\ Past("workspaces") =>
         /\ Len(data.workspaces) = 2
         /\ \A x \in Range(data.workspaces) :
              Cardinality({n \in 1..Len(data.accounts) :
                             data.accounts[n].workspace_id = x.id}) = 1
         /\ Len(data.accounts) = 2
    /\ Past("products") => Len(data.products) = 20
    /\ Past("variants") =>
         /\ Len(data.product_variants) = 60
         /\ \A v \in Range(data.product_variants) :
              \E q \in Range(data.products) : q.id = v.product_id

C5_Witness ==
  /\ SmallRun
  /\ pc = "done"
  /\ Len(data.product_variants) = 60

\* C6: a conversation has resulted_in_tryon exactly when its state is
\* processing_tryon, result_sent or completed; so a completed conversation
\* resulted in a try-on, and so did one that resulted in a purchase.
C6_TryonFlag ==
  \A c \in Range(data.conversations) :
    /\ c.resulted_in_tryon <=>
         c.conversation_state \in {"processing_tryon", "result_sent", "completed"}
    /\ c.conversation_state = "completed" => c.resulted_in_tryon
    /\ c.resulted_in_purchase => c.resulted_in_tryon

\* conversations of both kinds: one still processing its try-on that ended in
\* a purchase, one abandoned
C6_Witness ==
  /\ \E c \in Range(data.conversations) :
       /\ c.conversation_state = "processing_tryon"
       /\ c.resulted_in_tryon /\ c.resulted_in_purchase
  /\ \E c \in Range(data.conversations) :
       c.conversation_state = "abandoned" /\ ~c.resulted_in_tryon

\* the events of a session, in the order they were emitted
SessionEvents(sid) == SelectSeq(data.customer_journeys, LAMBDA e : e.session_id = sid)

SessionIds == {data.customer_journeys[n].session_id : n \in 1..Len(data.customer_journeys)}

\* C7: the events of a session, in the order emitted, never go back in time,
\* exactly one of them is flagged as the session's first event and exactly one
\* as its last, the same event when the session has one event.
C7_SessionOrder ==
  pc = "done" =>
    \A sid \in SessionIds :
      LET events == SessionEvents(sid)
      IN  /\ \A k \in 1..(Len(events) - 1) :
               events[k].event_timestamp <= events[k + 1].event_timestamp
          /\ Cardinality({k \in 1..Len(events) : events[k].is_session_first_event}) = 1
          /\ Cardinality({k \in 1..Len(events) : events[k].is_session_last_event}) = 1
          /\ Len(events) = 1 =>
               events[1].is_session_first_event /\ events[1].is_session_last_event

\* a completed run with a session of one event and a session of six
C7_Witness ==
  /\ pc = "done"
  /\ \E sid \in SessionIds : Len(SessionEvents(sid)) = 1
  /\ \E sid \in SessionIds :
       LET events == SessionEvents(sid)
       IN  /\ Len(events) = 6
           /\ events[1].is_session_first_event /\ ~events[1].is_session_last_event
           /\ events[6].is_session_last_event /\ ~events[6].is_session_first_event
           /\ events[1].event_timestamp < events[6].event_timestamp

\* the first generate() of a generator has completed after the generate() of
\* an earlier generator built with the same arguments
SecondRunDone == pc = "done" /\ calls = 1 /\ prevCounts # NoCounts

\* C8, as stated: two runs of generate() with the same scale profile have, in
\* each of the 14 collections, the same number of records.
C8_SameCounts == SecondRunDone => Counts(data) = prevCounts

\* the collections whose size no random choice decides
CountedByScale ==
  { "workspaces", "accounts", "products", "product_variants", "social_posts",
    "conversations", "orders", "demand_forecasts" }

\* the sizes the preset sc gives to those collections
CountsOfScale(sc) ==
  [ workspaces |-> sc.workspaces,
    accounts |-> sc.workspaces,
    products |-> sc.workspaces * sc.productsPerWorkspace,
    product_variants |-> sc.workspaces * sc.productsPerWorkspace * sc.variantsPerProduct,
    social_posts |-> sc.workspaces * sc.postsPerWorkspace,
    conversations |-> sc.workspaces * sc.conversationsPerWorkspace,
    orders |-> sc.workspaces * sc.ordersPerWorkspace,
    demand_forecasts |-> 3 * Min(sc.workspaces * sc.productsPerWorkspace, 50) ]

\* C8, amended: the first generate() of a generator gives workspaces, accounts,
\* products, product_variants, social_posts, conversations, orders and
\* demand_forecasts the sizes fixed by the scale profile, so two such runs with
\* one profile agree on the sizes of these eight collections.
C8_SameCountsByScale ==
  pc = "done" /\ calls = 1 =>
    \A c \in CountedByScale :
      /\ Len(data[c]) = CountsOfScale(scale)[c]
      /\ prevCounts # NoCounts => Len(data[c]) = prevCounts[c]

\* two completed runs with one profile whose inventory histories differ in
\* length
C8_Witness ==
  /\ SecondRunDone
  /\ Len(data.inventory_history) # prevCounts.inventory_history
  /\ \A c \in CountedByScale : Len(data[c]) = prevCounts[c]

\* a table whose weights are all zero
AllZero(weightedItems) == \A k \in 1..Len(weightedItems) : weightedItems[k].weight = 0

\* C9: weightedChoice on a non-empty table whose weights are all zero returns
\* the last item of the table.
C9_ZeroTableLast ==
  pc = "returned" /\ AllZero(args.weightedItems) =>
    ret = args.weightedItems[Len(args.weightedItems)].item

\* C10: a run with a scale name that is no preset ends in a configuration
\* error and generates no collection.
C10_UnknownScaleAborts ==
  args.scale \notin validScales =>
    /\ data = EmptyData
    /\ pc \in {"start", "exit1"}

\* C11: once a stage has thrown, no stage runs and no record is added, no
\* dataset is returned or exported, and the command-line entry point goes to
\* exit code 1 and nowhere else.
C11_ThrowAborts ==
  [][(pc \in {"threw", "exit1"}) =>
       (pc' \in {pc, "exit1"} /\ UNCHANGED << data, lookups, ret, calls >>)]_vars

\* the command line has exited with code 1 after a stage threw in the middle
\* of a run, some collections filled and some still empty
C11_Witness ==
  /\ pc = "exit1"
  /\ args.scale \in validScales
  /\ Len(data.product_variants) > 0
  /\ Len(data.orders) = 0

\* the bindings of the post
BindingsOf(post) ==
  {n \in 1..Len(data.garment_bindings) : data.garment_bindings[n].post_id = post.id}

\* a post with a product_id has exactly one garment binding, and that binding
\* carries the post's product_id; a post without a product_id has none; and
\* the total_revenue_cents of every binding is its total_purchases times the
\* price_cents of its product
BindingIffLinked ==
    /\ \A post \in Range(data.social_posts) :
         IF post.product_id = Null
         THEN BindingsOf(post) = {}
         ELSE /\ Cardinality(BindingsOf(post)) = 1
              /\ \A n \in BindingsOf(post) :
                   data.garment_bindings[n].product_id = post.product_id
    /\ \A b \in Range(data.garment_bindings) :
         /\ \E post \in Range(data.social_posts) : post.id = b.post_id
         /\ \E product \in Range(data.products) : product.id = b.product_id
         /\ \A product \in Range(data.products) :
              product.id = b.product_id =>
                b.total_revenue_cents = b.total_purchases * product.price_cents

SegmentRule(purchases, revenue, inactiveDays, segment) ==
  LET highValue == purchases >= 3 \/ revenue > 30000
      regular == ~highValue /\ purchases >= 1
      churned == ~highValue /\ ~regular /\ inactiveDays > 60
      atRisk == ~highValue /\ ~regular /\ ~churned /\ inactiveDays > 30
  IN  /\ highValue => segment = "high_value"
      /\ regular => segment = "regular"
      /\ churned => segment = "churned"
      /\ atRisk => segment = "at_risk"
      /\ (~highValue /\ ~regular /\ ~churned /\ ~atRisk) => segment = "casual"

ProfilesMatchParticipants ==
    /\ \A n, m \in 1..Len(data.customer_profiles) :
         data.customer_profiles[n].customer_id = data.customer_profiles[m].customer_id
           => n = m
    /\ \A c \in Range(data.conversations) :
         \E profile \in Range(data.customer_profiles) :
           profile.customer_id = c.participant_id
    /\ \A profile \in Range(data.customer_profiles) :
         \E c \in Range(data.conversations) : c.participant_id = profile.customer_id

C15_ImpressionsCoverReach ==
  (pc = "returned" /\ args.entry = "generateEngagementMetrics") =>
    /\ ret.reach = args.reach
    /\ ret.impressions >= ret.reach

\* the least factor has been applied to a reach of 2 and the impressions,
\* rounded from 2.4, equal the reach
C15_Witness ==
  /\ pc = "returned"
  /\ args.entry = "generateEngagementMetrics"
  /\ args.reach = 2
  /\ args.factor = 12000
  /\ ret.impressions = 2

\* C16: the running stock of a variant is from 0 to 500 at every point: the
\* value it starts from (the variant's inventory_quantity plus the offset
\* drawn), the value after each day, and the previous_quantity and
\* new_quantity of every history record.
C16_StockWithinRange ==
  /\ \A variant \in Range(data.product_variants) :
       \A offset \in StockOffsetGrid :
         /\ 0 <= variant.inventory_quantity + offset
         /\ variant.inventory_quantity + offset <= 500
  /\ 0 <= currentStock /\ currentStock <= 500
  /\ \A r \in Range(data.inventory_history) :
       /\ 0 <= r.previous_quantity /\ r.previous_quantity <= 500
       /\ 0 <= r.new_quantity /\ r.new_quantity <= 500

\* a variant of a product with the greatest total_inventory started from more
\* than 260 with the greatest offset, and restocks took it to 500, the last of
\* them cut short
C16_Witness ==
  /\ \E r \in Range(data.inventory_history) : r.previous_quantity > 260
  /\ \E r \in Range(data.inventory_history) :
       /\ r.change_source = "restock"
       /\ r.new_quantity = 500
       /\ r.change_amount < 50
  /\ currentStock = 500

\* the history records of the variant, in the order they were pushed
HistoryOf(variant) ==
  SelectSeq(data.inventory_history, LAMBDA r : r.variant_id = variant.id)

\* the variants whose days have all been generated, and the one under way
VariantsStarted ==
  IF pc = "inventory" THEN (IF i > 0 THEN w ELSE w - 1)
  ELSE IF Past("inventory") THEN Len(data.product_variants)
  ELSE 0

\* C17: a history record stands for a change that moved the clamped stock and
\* for nothing else: no record has change_amount 0 or equal quantities, the
\* previous_quantity of a record is the new_quantity of the variant's record
\* before it (what happened in between left the stock as it was and pushed
\* nothing), and the running stock is the new_quantity of the last record.
C17_RecordIffStockMoved ==
  /\ \A r \in Range(data.inventory_history) :
       r.change_amount # 0 /\ r.new_quantity # r.previous_quantity
  /\ \A variant \in Range(data.product_variants) :
       \A n \in 1..(Len(HistoryOf(variant)) - 1) :
         HistoryOf(variant)[n + 1].previous_quantity = HistoryOf(variant)[n].new_quantity
  /\ VariantsStarted > 0 =>
       LET history == HistoryOf(data.product_variants[VariantsStarted])
       IN  history # << >> => history[Len(history)].new_quantity = currentStock

\* the history of the last variant, whose days have no change or three, is
\* complete and ends with a restock cut short at 500; its number of records is
\* no multiple of three, so a change of those days pushed nothing
C17_Witness ==
  /\ Past("inventory")
  /\ "ledger" \in plan.focus
  /\ "inventory" \in plan.focus
  /\ LET history == HistoryOf(data.product_variants[Len(data.product_variants)])
     IN  /\ Len(history) % 3 # 0
         /\ history[Len(history)].change_source = "restock"
         /\ history[Len(history)].new_quantity = 500
         /\ history[Len(history)].change_amount < 50
  /\ currentStock = 500

\* the order the stages are stated to run in
StatedOrder ==
  << "workspaces", "products", "variants", "inventory", "posts", "metrics",
     "bindings", "conversations", "orders", "journeys", "aggregates",
     "profiles", "forecasts" >>

Position(stage) == CHOOSE k \in 1..Len(StatedOrder) : StatedOrder[k] = stage

\* a call of generate() starts with the first stage, and a step of a stage
\* stays in the stage, moves to a stage later in the stated order, completes
\* or throws
InOrder ==
  /\ pc \in {"constructed", "done"} /\ pc' \in Range(StatedOrder)
       => pc' = StatedOrder[1]
  /\ pc \in Range(StatedOrder) /\ pc' \in Range(StatedOrder)
       => Position(pc) <= Position(pc')
  /\ pc \in Range(StatedOrder) => pc' \in Range(StatedOrder) \cup {"done", "threw"}

\* C18: in one generate() the stages run once each in the order workspaces,
\* products, variants, inventory history, posts, post metrics, bindings,
\* conversations, orders, journeys, daily aggregates, profiles, forecasts: a
\* call starts with the first stage and a stage at work is never followed by an
\* earlier one, every collection or Map a stage reads is written only by
\* stages before it (or by itself), and a completed call has added the scale's
\* workspaces once.
C18_StagesInOrder ==
  /\ [][InOrder]_vars
  /\ [](pc \in Range(StatedOrder) =>
          \A name \in Reads(pc) : \A writer \in Writers(name) \ {pc} :
            Position(writer) < Position(pc))
  /\ [](pc = "done" => Len(data.workspaces) = calls * scale.workspaces)

\* a first generate() has completed and each of its stages has left records
C18_Witness ==
  /\ pc = "done"
  /\ calls = 1
  /\ \A c \in Collections : data[c] # << >>

IsPrefix(s, t) == Len(s) <= Len(t) /\ SubSeq(t, 1, Len(s)) = s

\* the keys of a Map in insertion order
Keys(map) == [n \in 1..Len(map) |-> map[n].key]

\* a step of a stage leaves the records every collection has where they are
\* and as they are, adds records only to a collection the stage writes, and
\* keeps the keys of every Map
Appends ==
  pc \in Range(Stages) =>
    /\ \A c \in Collections :
         /\ IsPrefix(data[c], data'[c])
         /\ data'[c] # data[c] => pc \in Writers(c)
    /\ \A name \in DOMAIN lookups :
         /\ IsPrefix(Keys(lookups[name]), Keys(lookups'[name]))
         /\ lookups'[name] # lookups[name] => pc \in Writers(name)

\* C19: generation is append-only: a stage adds records at the end of its own
\* collection(s) only, and no step of any stage removes a record, changes one,
\* or adds one to the collection of another stage; the Maps only gain keys.
C19_AppendOnly == [][Appends]_vars

\* the last stage is adding forecasts while the collections of the stages
\* before it hold their records
C19_Witness ==
  /\ pc = "forecasts"
  /\ Len(data.demand_forecasts) > 0
  /\ Len(data.customer_profiles) > 0
  /\ Len(data.conversations) > 0
  /\ Len(data.orders) > 0

\* the numerators of a sequence of fractions
Numerators(fractions) == [k \in 1..Len(fractions) |-> fractions[k].num]

C21_FunnelStageNonDecreasing ==
  /\ \A e \in Range(data.customer_journeys) :
       /\ e.funnel_stage \in 1..5
       /\ e.funnel_stage = getEventFunnelStage(e.event_type)
  /\ \A sid \in SessionIds :
       LET events == SessionEvents(sid)
       IN  \A k \in 1..(Len(events) - 1) :
             events[k].funnel_stage <= events[k + 1].funnel_stage

\* a session took the sequence with the trigger keyword (two events of stage 1
\* and then two of stage 2) and a session took the one that ends in a purchase
C21_Witness ==
  /\ pc = "done"
  /\ \E sid \in SessionIds :
       LET events == SessionEvents(sid)
       IN  /\ Len(events) = 4
           /\ events[3].event_type = "trigger_keyword"
           /\ events[2].funnel_stage = 1
           /\ events[4].funnel_stage = 2
  /\ \E sid \in SessionIds :
       LET events == SessionEvents(sid)
       IN  /\ Len(events) = 6
           /\ events[6].funnel_stage = 4

\* C22: when generate() with the preset 'small' has completed, the journey
\* events have at least 3 distinct funnel_stage values and at least 5 distinct
\* event_type values.
C22_JourneyVariety ==
  (SmallRun /\ pc = "done") =>
    /\ Cardinality({e.funnel_stage : e \in Range(data.customer_journeys)}) >= 3
    /\ Cardinality({e.event_type : e \in Range(data.customer_journeys)}) >= 5

\* the keys of the Map are the identifiers in ids, each once
KeysAre(map, ids) ==
  /\ \A n, m \in 1..Len(map) : map[n].key = map[m].key => n = m
  /\ {map[n].key : n \in 1..Len(map)} = ids

\* C23: each Map of this.lookups agrees with a scan of the collections, at the
\* end of every stage and after every iteration of one: workspaceProducts
\* holds for every workspace its products in the order pushed, workspacePosts
\* its posts, productVariants for every product its variants,
\* customerConversations for every participant_id its conversations, and
\* postBindings for every post with a binding the binding pushed last for it.
C23_LookupsAgree ==
  /\ KeysAre(lookups.workspaceProducts, {x.id : x \in Range(data.workspaces)})
  /\ KeysAre(lookups.workspacePosts, {x.id : x \in Range(data.workspaces)})
  /\ KeysAre(lookups.productVariants, {x.id : x \in Range(data.products)})
  /\ KeysAre(lookups.postBindings, {x.post_id : x \in Range(data.garment_bindings)})
  /\ KeysAre(lookups.customerConversations,
             {x.participant_id : x \in Range(data.conversations)})
  /\ \A e \in Range(lookups.workspaceProducts) :
       e.value = SelectSeq(data.products, LAMBDA x : x.workspace_id = e.key)
  /\ \A e \in Range(lookups.workspacePosts) :
       e.value = SelectSeq(data.social_posts, LAMBDA x : x.workspace_id = e.key)
  /\ \A e \in Range(lookups.productVariants) :
       e.value = SelectSeq(data.product_variants, LAMBDA x : x.product_id = e.key)
  /\ \A e \in Range(lookups.customerConversations) :
       e.value = SelectSeq(data.conversations, LAMBDA x : x.participant_id = e.key)
  /\ \A e \in Range(lookups.postBindings) :
       LET bindings == SelectSeq(data.garment_bindings, LAMBDA x : x.post_id = e.key)
       IN  e.value = bindings[Len(bindings)]

\* a completed run of the preset 'small' as it is: every workspace has ten
\* products in its entry, a post has a binding in postBindings, and a
\* participant_id has an entry in customerConversations
C23_Witness ==
  /\ pc = "done"
  /\ plan.exact
  /\ \A e \in Range(lookups.workspaceProducts) : Len(e.value) = 10
  /\ \A e \in Range(lookups.productVariants) : Len(e.value) = 3
  /\ lookups.postBindings # << >>
  /\ lookups.customerConversations # << >>

\* C24: the history records of a variant form a chain: of two records of the
\* same variant with no record of that variant between them, the later one's
\* previous_quantity is the earlier one's new_quantity.
C24_LedgerChain ==
  \A n, m \in 1..Len(data.inventory_history) :
    LET earlier == data.inventory_history[n]
        later == data.inventory_history[m]
    IN  ( /\ n < m
          /\ earlier.variant_id = later.variant_id
          /\ \A k \in (n + 1)..(m - 1) :
               data.inventory_history[k].variant_id # earlier.variant_id )
        => later.previous_quantity = earlier.new_quantity

\* a variant's chain passes through a restock cut short at 500 and goes on
\* from 500 with a sale
C24_Witness ==
  \E n, m \in 1..Len(data.inventory_history) :
    LET earlier == data.inventory_history[n]
        later == data.inventory_history[m]
    IN  /\ n < m
        /\ earlier.variant_id = later.variant_id
        /\ earlier.change_source = "restock"
        /\ earlier.change_amount < 50
        /\ earlier.new_quantity = 500
        /\ later.previous_quantity = 500
        /\ later.change_source = "sale"

\* C25: the change_amount of a history record is negative when its
\* change_source is 'sale' and positive when it is 'restock' or 'return'.
C25_SignOfSource ==
  \A r \in Range(data.inventory_history) :
    /\ r.change_source = "sale" => r.change_amount < 0
    /\ r.change_source \in {"restock", "return"} => r.change_amount > 0

\* a history with a sale, a return, and a restock that the clamp at 500 cut
\* short
C25_Witness ==
  /\ \E r \in Range(data.inventory_history) : r.change_source = "sale"
  /\ \E r \in Range(data.inventory_history) : r.change_source = "return"
  /\ \E r \in Range(data.inventory_history) :
       /\ r.change_source = "restock"
       /\ r.new_quantity = 500
       /\ r.change_amount < 50

\* C26: every variant that is available has an inventory_quantity above 0.
C26_AvailableInStock ==
  \A variant \in Range(data.product_variants) :
    variant.available => variant.inventory_quantity > 0

\* the conversations an order refers to
ConversationsOf(order) ==
  {c \in Range(data.conversations) : c.id = order.conversation_id}

\* attributed_to_tryon is true exactly when conversation_id is not null; an
\* attributed order refers to a conversation of its workspace that resulted in
\* a purchase and has that conversation's participant_id as customer_id; no
\* two orders refer to the same conversation; and binding_id is not null only
\* on an attributed order, and then refers to a binding of the order's workspace
AttributionConsistent ==
  /\ \A order \in Range(data.orders) :
       /\ order.attributed_to_tryon <=> order.conversation_id # Null
       /\ order.conversation_id # Null =>
            /\ ConversationsOf(order) # {}
            /\ \A c \in ConversationsOf(order) :
                 /\ c.workspace_id = order.workspace_id
                 /\ c.resulted_in_purchase
                 /\ order.customer_id = c.participant_id
       /\ order.binding_id # Null =>
            /\ order.attributed_to_tryon
            /\ \E b \in Range(data.garment_bindings) :
                 b.id = order.binding_id /\ b.workspace_id = order.workspace_id
  /\ \A n, m \in 1..Len(data.orders) :
       ( /\ data.orders[n].conversation_id # Null
         /\ data.orders[n].conversation_id = data.orders[m].conversation_id ) => n = m

C28_SeenInOrder ==
  \A profile \in Range(data.customer_profiles) :
    profile.first_seen_at <= profile.last_seen_at

\* C29: every session start drawn by getSeasonallyWeightedDate lies in the
\* window of history: not earlier than daysOfHistory days before the time of
\* the run and not later than the time of the run.
C29_SessionStartInWindow ==
  \A journey \in Range(data.customer_journeys) :
    journey.is_session_first_event =>
      /\ journey.event_timestamp >= NowOfDay - scale.daysOfHistory * DaySeconds
      /\ journey.event_timestamp <= NowOfDay

\* the products of a workspace and the variants of a product, as sets of ids
ProductsOf(workspace) ==
  { product.id : product \in { q \in Range(data.products) :
                                 q.workspace_id = workspace.id } }

VariantsOf(product) ==
  { variant.id : variant \in { v \in Range(data.product_variants) :
                                 v.product_id = product.id } }

ShapeAsScaled ==
  /\ \A workspace \in Range(data.workspaces) :
       Cardinality(ProductsOf(workspace)) = scale.productsPerWorkspace
  /\ \A product \in Range(data.products) :
       /\ Cardinality(VariantsOf(product)) = scale.variantsPerProduct
       /\ Cardinality(VariantsOf(product)) = product.variants_count

\* C30: generate() is repeatable on one generator: when a second generate()
\* of the same generator has returned, every workspace has exactly
\* productsPerWorkspace products and every product exactly variantsPerProduct
\* variants, the number its variants_count states.
C30_RepeatableShape == (calls = 2 /\ pc = "done") => ShapeAsScaled

====
